---- MODULE Spec2Model ----
(***************************************************************************)
(* Model of internal/parser/planparserv2/plan_parser_v2.go: the expression *)
(* compile pipeline with its process-wide result cache (exprCache), the    *)
(* pooled lexer/parser, template value filling and the plan assemblers     *)
(* (CreateRetrievePlan, CreateSearchPlan, CreateRequeryPlan) together with *)
(* ParseIdentifier.                                                        *)
(*                                                                         *)
(* Strings are sequences of Unicode code points.  Pointers to the          *)
(* ExprWithType / planpb.Expr objects built by a compile are indices into  *)
(* the sequence `heap`; 0 is the nil pointer.                              *)
(***************************************************************************)
EXTENDS Integers, Sequences, FiniteSets, TLC

\* ------------------------------------------------------------------ bounds

\* Number of public calls started in one behaviour.
MaxCalls == 2

\* Longest id list handed to CreateRequeryPlan.
MaxIds == 2

\* Longest string handed to convertHanToASCII on its own.
MaxLen == 4

\* ------------------------------------------------------------ code points

Backslash == <<92>>

IsASCII(r) == r < 128

\* unicode.Is(unicode.Han, r): the range table of the Han script, both
\* planes.
IsHan(r) ==
    \/ r \in 11904..11929
    \/ r \in 11931..12019
    \/ r \in 12032..12245
    \/ r \in {12293, 12295}
    \/ r \in 12321..12329
    \/ r \in 12344..12347
    \/ r \in 13312..19903
    \/ r \in 19968..40959
    \/ r \in 63744..64109
    \/ r \in 64112..64217
    \/ r \in 94178..94179
    \/ r \in 94192..94193
    \/ r \in 131072..173791
    \/ r \in 173824..177977
    \/ r \in 177984..178205
    \/ r \in 178208..183969
    \/ r \in 183984..191456
    \/ r \in 194560..195101
    \/ r \in 196608..201546
    \/ r \in 201552..205743

\* isEscapeCh(ch uint8): ch is one of  \  n  t  r  f  "  '
isEscapeCh(ch) == ch \in {92, 110, 116, 114, 102, 34, 39}

HexDigit(d) == IF d < 10 THEN 48 + d ELSE 87 + d

RECURSIVE HexDigits(_)
HexDigits(n) == IF n < 16 THEN <<HexDigit(n)>>
                ELSE HexDigits(n \div 16) \o <<HexDigit(n % 16)>>

RECURSIVE PadZero(_)
PadZero(ds) == IF Len(ds) >= 4 THEN ds ELSE PadZero(<<48>> \o ds)

\* formatUnicode(r) = fmt.Sprintf("\\u%04x", r)
formatUnicode(r) == Backslash \o <<117>> \o PadZero(HexDigits(r))

\* hanLoop returning what the builder holds, not s, when it meets a backslash
\* before a character that is no escape character.
RECURSIVE hanLoopAbortPartial(_, _, _, _)
hanLoopAbortPartial(s, i, skipCur, out) ==
    IF i > Len(s) THEN out
    ELSE IF skipCur THEN hanLoopAbortPartial(s, i + 1, FALSE, Append(out, s[i]))
    ELSE IF s[i] = 92
         THEN IF i + 1 <= Len(s) /\ ~(IsASCII(s[i + 1]) /\ isEscapeCh(s[i + 1]))
              THEN out
              ELSE hanLoopAbortPartial(s, i + 1, TRUE, Append(out, s[i]))
    ELSE IF IsHan(s[i])
         THEN hanLoopAbortPartial(s, i + 1, FALSE, out \o formatUnicode(s[i]))
    ELSE hanLoopAbortPartial(s, i + 1, FALSE, Append(out, s[i]))

\* hanLoop whose skipCur branch clears the flag without writing the rune.
RECURSIVE hanLoopSkipDrops(_, _, _, _)
hanLoopSkipDrops(s, i, skipCur, out) ==
    IF i > Len(s) THEN out
    ELSE IF skipCur THEN hanLoopSkipDrops(s, i + 1, FALSE, out)
    ELSE IF s[i] = 92
         THEN IF i + 1 <= Len(s) /\ ~(IsASCII(s[i + 1]) /\ isEscapeCh(s[i + 1]))
              THEN s
              ELSE hanLoopSkipDrops(s, i + 1, TRUE, Append(out, s[i]))
    ELSE IF IsHan(s[i])
         THEN hanLoopSkipDrops(s, i + 1, FALSE, out \o formatUnicode(s[i]))
    ELSE hanLoopSkipDrops(s, i + 1, FALSE, Append(out, s[i]))

\* The loop of convertHanToASCII from rune index i on: `out` is the builder,
\* skipCur the flag of the loop.  s[i+1] is the byte after a backslash: the
\* first byte of the next rune, which is an escape character only when that
\* rune is ASCII.
RECURSIVE hanLoop(_, _, _, _)
hanLoop(s, i, skipCur, out) ==
    IF i > Len(s) THEN out
    ELSE IF skipCur THEN hanLoop(s, i + 1, FALSE, Append(out, s[i]))
    ELSE IF s[i] = 92
         THEN IF i + 1 <= Len(s) /\ ~(IsASCII(s[i + 1]) /\ isEscapeCh(s[i + 1]))
              THEN s
              ELSE hanLoop(s, i + 1, TRUE, Append(out, s[i]))
    ELSE IF IsHan(s[i]) THEN hanLoop(s, i + 1, FALSE, out \o formatUnicode(s[i]))
    ELSE hanLoop(s, i + 1, FALSE, Append(out, s[i]))

convertHanToASCII(s) == hanLoop(s, 1, FALSE, <<>>)

\* ------------------------------------------------------- schema (caller's)

\* schemapb.DataType values used by the model.
VectorDataTypes ==
    {"BinaryVector", "FloatVector", "Float16Vector", "BFloat16Vector",
     "SparseFloatVector", "Int8Vector"}

\* typeutil.IsVectorType
IsVectorType(dataType) == dataType \in VectorDataTypes

Field(id, dt, loaded) == [fieldID |-> id, dataType |-> dt, loaded |-> loaded]

\* Three schema helpers a caller may hold.  s1 and s2 describe the same
\* collection name with different content (s2 is the collection after field
\* "a" was dropped); s3 is another collection in which "a" is a Bool field.
SchemaIds == {"s1", "s2", "s3"}

\* Spec: one collection, whose schema changes between calls.
OneCollection == {"s1", "s2"}

\* SpecConc: two collections.
TwoCollections == {"s1", "s3"}

GetCollectionName(sid) == IF sid = "s3" THEN "c2" ELSE "c1"

CollNames == {GetCollectionName(sid) : sid \in SchemaIds}

VectorFields ==
    [fv   |-> Field(101, "FloatVector", TRUE),
     bv   |-> Field(102, "BinaryVector", TRUE),
     f16  |-> Field(103, "Float16Vector", TRUE),
     bf16 |-> Field(104, "BFloat16Vector", TRUE),
     sv   |-> Field(105, "SparseFloatVector", TRUE),
     i8   |-> Field(106, "Int8Vector", TRUE),
     unl  |-> Field(107, "FloatVector", FALSE),
     d    |-> Field(3, "Int64", FALSE)]

SchemaFields(sid) ==
    CASE sid = "s1" -> [a |-> Field(1, "Int64", TRUE), b |-> Field(2, "Bool", TRUE)] @@ VectorFields
      [] sid = "s2" -> [b |-> Field(2, "Bool", TRUE)] @@ VectorFields
      [] sid = "s3" -> [a |-> Field(1, "Bool", TRUE), b |-> Field(2, "Bool", TRUE)] @@ VectorFields

\* Field names a caller may pass: "zz" is in no schema, "d" is a scalar field
\* that is not loaded, "unl" a vector field that is not loaded, "i8" a loaded
\* field of a vector type the switch of CreateSearchPlan has no case for.
FieldNames == {"a", "fv", "bv", "f16", "bf16", "sv", "i8", "unl", "d", "zz"}

\* schema.GetFieldFromName: found /\ field, or an error
HasField(sid, name) == name \in DOMAIN SchemaFields(sid)

GetFieldFromName(sid, name) == SchemaFields(sid)[name]

\* schema.IsFieldLoaded(fieldID)
IsFieldLoaded(sid, fieldID) ==
    \E n \in DOMAIN SchemaFields(sid) :
        SchemaFields(sid)[n].fieldID = fieldID /\ SchemaFields(sid)[n].loaded

\* ------------------------------------------------- expression strings

E_empty == <<>>                                 \* ""
E_a == <<97>>                                   \* a
E_b == <<98>>                                   \* b
E_tmpl == <<97, 62, 123, 120, 125>>             \* a>{x}
E_arith == <<49, 43, 50>>                       \* 1+2
E_han == <<34, 20013, 34>>                      \* "<U+4E2D>"
E_lexerr == <<35>>                              \* #
E_prserr == <<63>>                              \* ?
E_syntax == <<97, 62>>                          \* a>
E_trail == <<97, 41>>                           \* a)

AllExprs == {E_empty, E_a, E_b, E_tmpl, E_arith, E_han, E_lexerr, E_prserr,
             E_syntax, E_trail}

\* isEmptyExpression(s): len(strings.TrimSpace(s)) == 0
isEmptyExpression(s) == \A i \in 1..Len(s) : s[i] \in {32, 9, 10, 13, 11, 12}

\* ------------------------------------- grammar collaborator (black box)
\* The lexer, parser and visitor are generated from the grammar; the model
\* fixes their behaviour on the expression strings above.  The grammar only
\* knows ASCII: a string literal holding a raw Han rune is a token error.

N_han == <<34, 92, 117, 52, 101, 50, 100, 34>>  \* "\u4e2d"

\* getLexer(stream, listener): the error the sink holds afterwards, "" if none
LexerError(s) ==
    IF s = E_lexerr \/ (\E i \in 1..Len(s) : ~IsASCII(s[i]))
    THEN "token recognition error" ELSE ""

\* getParser(lexer, listener): the error the sink holds afterwards
ParserError(s) == IF s = E_prserr THEN "parser setup error" ELSE ""

\* parser.Expr(): the error the sink holds afterwards
ExprRuleError(s) == IF s = E_syntax THEN "mismatched input" ELSE ""

\* parser.GetCurrentToken().GetTokenType() == antlr.TokenEOF
AtEOF(s) == s # E_trail

NilValue == [kind |-> "nil", val |-> 0]

Obj(dt, kind, col, isT, name, v) ==
    [dataType |-> dt, kind |-> kind, column |-> col, isTemplate |-> isT,
     tmplName |-> name, value |-> v]

NoObj == Obj("None", "nil", "", FALSE, "", NilValue)

\* alwaysTrueExpr() wrapped in ExprWithType{dataType: Bool}
AlwaysTrueObj == Obj("Bool", "AlwaysTrueExpr", "", FALSE, "", NilValue)

ColumnObj(sid, name) ==
    Obj(SchemaFields(sid)[name].dataType, "ColumnExpr", name, FALSE, "", NilValue)

\* ast.Accept(NewParserVisitor(schema)): ok /\ the typed expression built,
\* or ~ok /\ an error message.
Visit(sid, ast) ==
    CASE ast = E_a ->
            IF HasField(sid, "a") THEN [ok |-> TRUE, obj |-> ColumnObj(sid, "a"), err |-> ""]
            ELSE [ok |-> FALSE, obj |-> NoObj, err |-> "field a not exist"]
      [] ast = E_b -> [ok |-> TRUE, obj |-> ColumnObj(sid, "b"), err |-> ""]
      [] ast = E_tmpl ->
            IF HasField(sid, "a")
            THEN [ok |-> TRUE, err |-> "",
                  obj |-> Obj("Bool", "UnaryRangeExpr", "a", TRUE, "x", NilValue)]
            ELSE [ok |-> FALSE, obj |-> NoObj, err |-> "field a not exist"]
      [] ast = E_arith ->
            [ok |-> TRUE, err |-> "",
             obj |-> Obj("Int64", "ValueExpr", "", FALSE, "", [kind |-> "Int64Val", val |-> 3])]
      [] ast = N_han ->
            [ok |-> TRUE, err |-> "",
             obj |-> Obj("VarChar", "ValueExpr", "", FALSE, "", [kind |-> "StringVal", val |-> 20013])]
      [] OTHER -> [ok |-> FALSE, obj |-> NoObj, err |-> "unsupported expression"]

\* canBeExecuted(e)
canBeExecuted(obj) == obj.dataType = "Bool"

\* ---------------------------------------------------- template values

TmplNames == {"x"}

TV(type, v) == [type |-> type, val |-> v]

\* schemapb.TemplateValue: two Int64 literals and a malformed array value
TmplVals == {TV("Int64", 1), TV("Int64", 2), TV("Array", 0)}

TmplMaps == UNION {[d -> TmplVals] : d \in SUBSET TmplNames}

NoTemplates == CHOOSE m \in TmplMaps : DOMAIN m = {}

\* UnmarshalExpressionValues: fails on a malformed value, else converts
\* every TemplateValue to a planpb.GenericValue.
UnmarshalFails(m) == \E n \in DOMAIN m : m[n].type = "Array"

UnmarshalExpressionValues(m) ==
    [n \in DOMAIN m |-> [kind |-> "Int64Val", val |-> m[n].val]]

\* FillExpressionValue(expr, valueMap) on a template expression fails when
\* the placeholder has no value.
FillFails(obj, valueMap) == obj.isTemplate /\ obj.tmplName \notin DOMAIN valueMap

\* FillExpressionValue(expr, valueMap): the expression object afterwards;
\* the placeholder's value is written into the object itself.
FillExpressionValue(obj, valueMap) ==
    IF obj.isTemplate /\ obj.tmplName \in DOMAIN valueMap
    THEN [obj EXCEPT !.value = valueMap[obj.tmplName]]
    ELSE obj

\* ------------------------------------------------------------ plan nodes

\* *schemapb.FieldSchema of the primary key, as CreateRequeryPlan reads it
PkField(id, dt, auto, pkey) ==
    [fieldID |-> id, dataType |-> dt, autoID |-> auto, isPartitionKey |-> pkey]

PkFields == {PkField(1, "Int64", FALSE, FALSE), PkField(7, "VarChar", TRUE, TRUE)}

NoPk == PkField(0, "None", FALSE, FALSE)

\* planpb.ColumnInfo of the term expression
ColumnInfo(pk) ==
    [fieldId |-> pk.fieldID, dataType |-> pk.dataType, isPrimaryKey |-> TRUE,
     isAutoID |-> pk.autoID, isPartitionKey |-> pk.isPartitionKey]

NoTerm == [columnInfo |-> [fieldId |-> 0, dataType |-> "None", isPrimaryKey |-> FALSE,
                           isAutoID |-> FALSE, isPartitionKey |-> FALSE],
           values |-> <<>>]

\* planpb.PlanNode.  `predicates` is the pointer to a compiled expression (0
\* is nil); `term` is the TermExpr that CreateRequeryPlan builds in place as
\* the predicate of its Query node.
PlanNode(node, pred, vt, qi, tag, fid, cnt, lim, term) ==
    [node |-> node, predicates |-> pred, vectorType |-> vt, queryInfo |-> qi,
     placeholderTag |-> tag, fieldId |-> fid, isCount |-> cnt, limit |-> lim,
     term |-> term]

NilPlan == PlanNode("nil", 0, "", "", "", 0, FALSE, 0, NoTerm)

QueryInfos == {"topk10", "topk50"}

\* schemapb.IDs: the id_field oneof and its data
IdSeqs(S) == UNION {[1..n -> S] : n \in 0..MaxIds}

IdLists ==
    {[kind |-> "IntId", data |-> d] : d \in IdSeqs({1, 2})}
    \cup {[kind |-> "StrId", data |-> d] : d \in IdSeqs({"k1", "k2"})}
    \cup {[kind |-> "none", data |-> <<>>]}

NoIds == [kind |-> "none", data |-> <<>>]

\* ------------------------------------------------------------------ state

Procs == {1, 2}

VARIABLES
    exprCache,   \* exprCache: key -> cached value (NoEntry when absent)
    heap,        \* the ExprWithType objects built so far, by pointer
    lexerPool,   \* lexer instances lying in the pool
    parserPool,  \* parser instances lying in the pool
    made,        \* number of lexer / parser instances created so far
    pc,          \* where each caller is in its current public call
    call,        \* the arguments of each caller's current call
    loc,         \* locals of the call: val/ret, lexer, parser, predicate
    trace,       \* what the current call has done so far (observation)
    result,      \* what each caller's last finished call returned
    lastOut,     \* per key, the value the latest finished handleExpr returned
    ncalls       \* number of public calls started

vars == <<exprCache, heap, lexerPool, parserPool, made, pc, call, loc, trace,
          result, lastOut, ncalls>>

\* exprParseKey{collectionName, expr}
Keys == CollNames \X AllExprs

Outcome(tag, msg, ref) == [tag |-> tag, msg |-> msg, ref |-> ref]

NoEntry == Outcome("none", "", 0)

ErrVal(msg) == Outcome("err", msg, 0)

ExprVal(ref) == Outcome("expr", "", ref)

NoCall == [op |-> "none", schema |-> "s1", expr |-> E_empty]

NoLoc == [ret |-> NoEntry, lexer |-> 0, parser |-> 0, expr |-> 0, tmpl |-> NoTemplates]

NoTrace == [hit |-> FALSE, probes |-> 0, lexer |-> 0, parser |-> 0, rule |-> 0,
            eof |-> 0, visitor |-> 0, stores |-> 0, putLexer |-> 0, putParser |-> 0]

\* What a finished call handed back: the error ("" is nil) with the pipeline
\* error it wraps, the expression pointer and what it pointed to when the
\* call returned, the plan node, the number of checkFunc invocations with the
\* pointer checkFunc was handed and what it answered, and the arguments the
\* call was made with.  For a call of convertHanToASCII alone: the string
\* returned, and whether the argument was the string of the call before.
NoResult ==
    [op |-> "none", schema |-> "s1", exprStr |-> E_empty, tmpl |-> NoTemplates,
     err |-> "", cause |-> "", expr |-> 0, snap |-> NoObj, plan |-> NilPlan,
     checked |-> 0, checkArg |-> 0, checkRet |-> "", field |-> "",
     queryInfo |-> "", pk |-> NoPk, ids |-> NoIds, out |-> <<>>, again |-> FALSE]

Init ==
    /\ exprCache = [k \in Keys |-> NoEntry]
    /\ heap = <<>>
    /\ lexerPool = {}
    /\ parserPool = {}
    /\ made = [lexers |-> 0, parsers |-> 0]
    /\ pc = [p \in Procs |-> "idle"]
    /\ call = [p \in Procs |-> NoCall]
    /\ loc = [p \in Procs |-> NoLoc]
    /\ trace = [p \in Procs |-> NoTrace]
    /\ result = [p \in Procs |-> NoResult]
    /\ lastOut = [k \in Keys |-> NoEntry]
    /\ ncalls = 0

\* parseKey that tells the versions of a collection's schema apart: the
\* changed schema s2 gets keys of its own.
parseKeyBySchemaVersion(c) ==
    <<IF c.schema = "s2" THEN "c2" ELSE GetCollectionName(c.schema), c.expr>>

\* parseKey of handleExpr: the collection name and the expression string as
\* the caller passed it.
parseKey(c) == <<GetCollectionName(c.schema), c.expr>>

\* ------------------------------------------------------------- handleExpr

\* A public call that compiles begins: ParseExpr, ParseIdentifier,
\* CreateRetrievePlan and CreateSearchPlan with a non-empty string all start
\* with handleExpr.
Begin(p, op, sid, e) ==
    /\ pc[p] = "idle"
    /\ ncalls < MaxCalls
    /\ op = "CreateSearchPlan" => Len(e) > 0
    /\ ncalls' = ncalls + 1
    /\ call' = [call EXCEPT ![p] = [op |-> op, schema |-> sid, expr |-> e]]
    /\ loc' = [loc EXCEPT ![p] = NoLoc]
    /\ trace' = [trace EXCEPT ![p] = NoTrace]
    /\ result' = [result EXCEPT ![p] = NoResult]
    /\ pc' = [pc EXCEPT ![p] = "probe"]
    /\ UNCHANGED <<exprCache, heap, lexerPool, parserPool, made, lastOut>>

\* ProbeHit with the result of the lookup ignored: the entry is there, and
\* the call compiles all the same.
ProbeHitIgnored(p) ==
    /\ pc[p] = "probe"
    /\ exprCache[parseKey(call[p])] # NoEntry
    /\ trace' = [trace EXCEPT ![p].probes = @ + 1]
    /\ pc' = [pc EXCEPT ![p] = "compile"]
    /\ UNCHANGED <<exprCache, heap, lexerPool, parserPool, made, call, loc, result,
                   lastOut, ncalls>>

\* handleExpr lines 32-34 and 41 on a hit: exprCache.Get finds the key.
ProbeHit(p) ==
    /\ pc[p] = "probe"
    /\ exprCache[parseKey(call[p])] # NoEntry
    /\ loc' = [loc EXCEPT ![p].ret = exprCache[parseKey(call[p])]]
    /\ trace' = [trace EXCEPT ![p].hit = TRUE, ![p].probes = @ + 1]
    /\ lastOut' = [lastOut EXCEPT ![parseKey(call[p])] = exprCache[parseKey(call[p])]]
    /\ pc' = [pc EXCEPT ![p] = "post"]
    /\ UNCHANGED <<exprCache, heap, lexerPool, parserPool, made, call, result, ncalls>>

\* handleExpr lines 32-34 on a miss.
ProbeMiss(p) ==
    /\ pc[p] = "probe"
    /\ exprCache[parseKey(call[p])] = NoEntry
    /\ trace' = [trace EXCEPT ![p].probes = @ + 1]
    /\ pc' = [pc EXCEPT ![p] = "compile"]
    /\ UNCHANGED <<exprCache, heap, lexerPool, parserPool, made, call, loc, result,
                   lastOut, ncalls>>

\* exprStr after line 35
Normalized(p) == convertHanToASCII(call[p].expr)

\* EmptyFastPath with the dataType of the ExprWithType left unset.
EmptyFastPathUntyped(p) ==
    /\ pc[p] = "compile"
    /\ isEmptyExpression(convertHanToASCII(call[p].expr))
    /\ heap' = Append(heap, [AlwaysTrueObj EXCEPT !.dataType = "None"])
    /\ loc' = [loc EXCEPT ![p].ret = [tag |-> "expr", msg |-> "", ref |-> Len(heap) + 1]]
    /\ pc' = [pc EXCEPT ![p] = "store"]
    /\ UNCHANGED <<exprCache, lexerPool, parserPool, made, call, trace, result,
                   lastOut, ncalls>>

\* lines 35 and 45-50: the empty expression yields a fresh always-true
\* expression without touching the grammar.
EmptyFastPath(p) ==
    /\ pc[p] = "compile"
    /\ isEmptyExpression(Normalized(p))
    /\ heap' = Append(heap, AlwaysTrueObj)
    /\ loc' = [loc EXCEPT ![p].ret = ExprVal(Len(heap) + 1)]
    /\ pc' = [pc EXCEPT ![p] = "store"]
    /\ UNCHANGED <<exprCache, lexerPool, parserPool, made, call, trace, result,
                   lastOut, ncalls>>

\* lines 35 and 52-56: getLexer takes a pooled lexer, or makes one when the
\* pool is empty, and binds it to the input and the error listener.
Tokenize(p) ==
    /\ pc[p] = "compile"
    /\ ~isEmptyExpression(Normalized(p))
    /\ \/ /\ lexerPool = {}
          /\ made' = [made EXCEPT !.lexers = @ + 1]
          /\ lexerPool' = lexerPool
          /\ loc' = [loc EXCEPT ![p].lexer = made.lexers + 1,
                                ![p].ret = IF LexerError(Normalized(p)) # ""
                                           THEN ErrVal(LexerError(Normalized(p)))
                                           ELSE NoEntry]
       \/ \E l \in lexerPool :
          /\ made' = made
          /\ lexerPool' = lexerPool \ {l}
          /\ loc' = [loc EXCEPT ![p].lexer = l,
                                ![p].ret = IF LexerError(Normalized(p)) # ""
                                           THEN ErrVal(LexerError(Normalized(p)))
                                           ELSE NoEntry]
    /\ trace' = [trace EXCEPT ![p].lexer = @ + 1]
    /\ pc' = [pc EXCEPT ![p] = IF LexerError(Normalized(p)) # "" THEN "store" ELSE "parser"]
    /\ UNCHANGED <<exprCache, heap, parserPool, call, result, lastOut, ncalls>>

\* lines 58-61: getParser.
MakeParser(p) ==
    /\ pc[p] = "parser"
    /\ \/ /\ parserPool = {}
          /\ made' = [made EXCEPT !.parsers = @ + 1]
          /\ parserPool' = parserPool
          /\ loc' = [loc EXCEPT ![p].parser = made.parsers + 1,
                                ![p].ret = IF ParserError(Normalized(p)) # ""
                                           THEN ErrVal(ParserError(Normalized(p)))
                                           ELSE NoEntry]
       \/ \E r \in parserPool :
          /\ made' = made
          /\ parserPool' = parserPool \ {r}
          /\ loc' = [loc EXCEPT ![p].parser = r,
                                ![p].ret = IF ParserError(Normalized(p)) # ""
                                           THEN ErrVal(ParserError(Normalized(p)))
                                           ELSE NoEntry]
    /\ trace' = [trace EXCEPT ![p].parser = @ + 1]
    /\ pc' = [pc EXCEPT ![p] = IF ParserError(Normalized(p)) # "" THEN "store" ELSE "rule"]
    /\ UNCHANGED <<exprCache, heap, lexerPool, call, result, lastOut, ncalls>>

\* ParseRule with the two puts right after parser.Expr(), ahead of the
\* end-of-input check that still reads the parser.
ParseRuleThenPut(p) ==
    /\ pc[p] = "rule"
    /\ IF ExprRuleError(Normalized(p)) # ""
       THEN /\ loc' = [loc EXCEPT ![p].ret = ErrVal(ExprRuleError(Normalized(p)))]
            /\ pc' = [pc EXCEPT ![p] = "store"]
            /\ lexerPool' = lexerPool
            /\ parserPool' = parserPool
            /\ trace' = [trace EXCEPT ![p].rule = @ + 1]
       ELSE /\ loc' = loc
            /\ pc' = [pc EXCEPT ![p] = "eof"]
            /\ lexerPool' = lexerPool \cup {loc[p].lexer}
            /\ parserPool' = parserPool \cup {loc[p].parser}
            /\ trace' = [trace EXCEPT ![p].rule = @ + 1, ![p].putLexer = @ + 1,
                                      ![p].putParser = @ + 1]
    /\ UNCHANGED <<exprCache, heap, made, call, result, lastOut, ncalls>>

\* ParseRule with the two puts deferred, so that they also run when the rule
\* reports an error.
ParseRuleDeferredPut(p) ==
    /\ pc[p] = "rule"
    /\ IF ExprRuleError(Normalized(p)) # ""
       THEN /\ loc' = [loc EXCEPT ![p].ret = ErrVal(ExprRuleError(Normalized(p)))]
            /\ pc' = [pc EXCEPT ![p] = "store"]
            /\ lexerPool' = lexerPool \cup {loc[p].lexer}
            /\ parserPool' = parserPool \cup {loc[p].parser}
            /\ trace' = [trace EXCEPT ![p].rule = @ + 1, ![p].putLexer = @ + 1,
                                      ![p].putParser = @ + 1]
       ELSE /\ loc' = loc
            /\ pc' = [pc EXCEPT ![p] = "eof"]
            /\ lexerPool' = lexerPool
            /\ parserPool' = parserPool
            /\ trace' = [trace EXCEPT ![p].rule = @ + 1]
    /\ UNCHANGED <<exprCache, heap, made, call, result, lastOut, ncalls>>

\* lines 63-66: ast := parser.Expr().
ParseRule(p) ==
    /\ pc[p] = "rule"
    /\ trace' = [trace EXCEPT ![p].rule = @ + 1]
    /\ IF ExprRuleError(Normalized(p)) # ""
       THEN /\ loc' = [loc EXCEPT ![p].ret = ErrVal(ExprRuleError(Normalized(p)))]
            /\ pc' = [pc EXCEPT ![p] = "store"]
       ELSE /\ loc' = loc
            /\ pc' = [pc EXCEPT ![p] = "eof"]
    /\ UNCHANGED <<exprCache, heap, lexerPool, parserPool, made, call, result,
                   lastOut, ncalls>>

\* EofCheck that only logs the token left over and goes on.
EofCheckGoesOn(p) ==
    /\ pc[p] = "eof"
    /\ trace' = [trace EXCEPT ![p].eof = @ + 1]
    /\ loc' = loc
    /\ pc' = [pc EXCEPT ![p] = "release"]
    /\ UNCHANGED <<exprCache, heap, lexerPool, parserPool, made, call, result,
                   lastOut, ncalls>>

\* lines 68-71: the full-consumption check.
EofCheck(p) ==
    /\ pc[p] = "eof"
    /\ trace' = [trace EXCEPT ![p].eof = @ + 1]
    /\ IF ~AtEOF(Normalized(p))
       THEN /\ loc' = [loc EXCEPT ![p].ret = ErrVal("invalid expression")]
            /\ pc' = [pc EXCEPT ![p] = "store"]
       ELSE /\ loc' = loc
            /\ pc' = [pc EXCEPT ![p] = "release"]
    /\ UNCHANGED <<exprCache, heap, lexerPool, parserPool, made, call, result,
                   lastOut, ncalls>>

\* line 74: putLexer(lexer).  The two puts are separate calls: another
\* caller may acquire between them.
ReleaseLexer(p) ==
    /\ pc[p] = "release"
    /\ lexerPool' = lexerPool \cup {loc[p].lexer}
    /\ trace' = [trace EXCEPT ![p].putLexer = @ + 1]
    /\ pc' = [pc EXCEPT ![p] = "putParser"]
    /\ UNCHANGED <<exprCache, heap, parserPool, made, call, loc, result, lastOut, ncalls>>

\* line 75: putParser(parser).
ReleaseParser(p) ==
    /\ pc[p] = "putParser"
    /\ parserPool' = parserPool \cup {loc[p].parser}
    /\ trace' = [trace EXCEPT ![p].putParser = @ + 1]
    /\ pc' = [pc EXCEPT ![p] = "visit"]
    /\ UNCHANGED <<exprCache, heap, lexerPool, made, call, loc, result, lastOut, ncalls>>

\* lines 77-78: ast.Accept(NewParserVisitor(schema)) builds a new typed
\* expression, or returns an error.
VisitAst(p) ==
    /\ pc[p] = "visit"
    /\ trace' = [trace EXCEPT ![p].visitor = @ + 1]
    /\ LET v == Visit(call[p].schema, Normalized(p)) IN
       IF v.ok
       THEN /\ heap' = Append(heap, v.obj)
            /\ loc' = [loc EXCEPT ![p].ret = ExprVal(Len(heap) + 1)]
       ELSE /\ heap' = heap
            /\ loc' = [loc EXCEPT ![p].ret = ErrVal(v.err)]
    /\ pc' = [pc EXCEPT ![p] = "store"]
    /\ UNCHANGED <<exprCache, lexerPool, parserPool, made, call, result, lastOut, ncalls>>

\* storeKey built from exprStr after line 35 has normalized it.
storeKeyNormalized(c) == <<GetCollectionName(c.schema), convertHanToASCII(c.expr)>>

\* The key exprCache.Add is called with (line 38 uses parseKey of line 32).
storeKey(c) == parseKey(c)

\* The value exprCache.Add is called with (val of line 36).
storeVal(l) == l.ret

\* Store that caches what ParseExpr makes of the outcome: the refusal of an
\* expression that is not of type Bool is stored in place of the expression.
StoreVerdict(p) ==
    /\ pc[p] = "store"
    /\ exprCache' =
          [exprCache EXCEPT ![storeKey(call[p])] =
              IF /\ call[p].op = "ParseExpr"
                 /\ loc[p].ret.tag = "expr"
                 /\ ~canBeExecuted(heap[loc[p].ret.ref])
              THEN ErrVal("predicate is not a boolean expression")
              ELSE storeVal(loc[p])]
    /\ lastOut' = [lastOut EXCEPT ![parseKey(call[p])] = loc[p].ret]
    /\ trace' = [trace EXCEPT ![p].stores = @ + 1]
    /\ pc' = [pc EXCEPT ![p] = "post"]
    /\ UNCHANGED <<heap, lexerPool, parserPool, made, call, loc, result, ncalls>>

\* Store that keeps the entry another call has put there meanwhile.
StoreIfAbsent(p) ==
    /\ pc[p] = "store"
    /\ exprCache' = IF exprCache[storeKey(call[p])] = NoEntry
                    THEN [exprCache EXCEPT ![storeKey(call[p])] = storeVal(loc[p])]
                    ELSE exprCache
    /\ lastOut' = [lastOut EXCEPT ![parseKey(call[p])] = loc[p].ret]
    /\ trace' = [trace EXCEPT ![p].stores = @ + 1]
    /\ pc' = [pc EXCEPT ![p] = "post"]
    /\ UNCHANGED <<heap, lexerPool, parserPool, made, call, loc, result, ncalls>>

\* lines 38 and 41: exprCache.Add(parseKey, val); return val.
Store(p) ==
    /\ pc[p] = "store"
    /\ exprCache' = [exprCache EXCEPT ![storeKey(call[p])] = storeVal(loc[p])]
    /\ lastOut' = [lastOut EXCEPT ![parseKey(call[p])] = loc[p].ret]
    /\ trace' = [trace EXCEPT ![p].stores = @ + 1]
    /\ pc' = [pc EXCEPT ![p] = "post"]
    /\ UNCHANGED <<heap, lexerPool, parserPool, made, call, loc, result, ncalls>>

\* An entry leaves the cache: its ten minutes lapsed, or the LRU evicted it.
Expire(k) ==
    /\ exprCache[k] # NoEntry
    /\ exprCache' = [exprCache EXCEPT ![k] = NoEntry]
    /\ lastOut' = [lastOut EXCEPT ![k] = NoEntry]
    /\ UNCHANGED <<heap, lexerPool, parserPool, made, pc, call, loc, trace, result, ncalls>>

\* ------------------------------------------------------------- ParseExpr

\* getError(ret) # nil
IsError(ret) == ret.tag = "err"

\* getExpr(ret) # nil
IsExpr(ret) == ret.tag = "expr"

\* ParseExprError without the canBeExecuted check of lines 92-94.
ParseExprErrorNoBoolCheck(ret, hp, tmpl) ==
    IF ret.tag = "err" THEN "cannot parse expression"
    ELSE IF ret.tag # "expr" THEN "cannot parse expression"
    ELSE IF UnmarshalFails(tmpl) THEN "invalid template value"
    ELSE IF FillFails(hp[ret.ref], UnmarshalExpressionValues(tmpl))
         THEN "template value not found"
    ELSE ""

\* lines 84-103 of ParseExpr up to the write of FillExpressionValue: the
\* error the call returns, "" when it goes on to line 105.
ParseExprError(ret, hp, tmpl) ==
    IF IsError(ret) THEN "cannot parse expression"
    ELSE IF ~IsExpr(ret) THEN "cannot parse expression"
    ELSE IF ~canBeExecuted(hp[ret.ref]) THEN "predicate is not a boolean expression"
    ELSE IF UnmarshalFails(tmpl) THEN "invalid template value"
    ELSE IF FillFails(hp[ret.ref], UnmarshalExpressionValues(tmpl))
         THEN "template value not found"
    ELSE ""

\* The heap after FillExpressionValue(predicate.expr, valueMap) of line 101:
\* predicate is the object the cache handed out, and it is filled in place.
FillInPlace(hp, ref, tmpl) ==
    [hp EXCEPT ![ref] = FillExpressionValue(hp[ref], UnmarshalExpressionValues(tmpl))]

\* The call of p returns res to its caller.
Finish(p, res) ==
    /\ result' = [result EXCEPT ![p] = res]
    /\ pc' = [pc EXCEPT ![p] = "idle"]

\* The result record of p's call so far: its arguments.
Args(p) ==
    [NoResult EXCEPT !.op = call[p].op, !.schema = call[p].schema,
                     !.exprStr = call[p].expr, !.tmpl = loc[p].tmpl]

\* ParseExpr lines 84-103, for ParseExpr itself and inside CreateRetrievePlan
\* (lines 127-130) and CreateSearchPlan (lines 177-184), which return the
\* error as it is.  exprTemplateValues is read here for the first time (line
\* 96), so the model draws it here.
PostParse(p, t) ==
    /\ pc[p] = "post"
    /\ call[p].op \in {"ParseExpr", "CreateRetrievePlan", "CreateSearchPlan"}
    /\ LET err == ParseExprError(loc[p].ret, heap, t) IN
       IF err # ""
       THEN /\ Finish(p, [Args(p) EXCEPT !.tmpl = t, !.err = err, !.cause = loc[p].ret.msg])
            /\ heap' = heap
            /\ loc' = [loc EXCEPT ![p].tmpl = t]
       ELSE /\ heap' = FillInPlace(heap, loc[p].ret.ref, t)
            /\ loc' = [loc EXCEPT ![p].expr = loc[p].ret.ref, ![p].tmpl = t]
            /\ pc' = [pc EXCEPT ![p] = "return"]
            /\ UNCHANGED result
    /\ UNCHANGED <<exprCache, lexerPool, parserPool, made, call, trace, lastOut, ncalls>>

\* CreateRetrievePlan lines 132-139
QueryPlan(expr) == PlanNode("Query", expr, "", "", "", 0, FALSE, 0, NoTerm)

\* ParseExpr line 105: return predicate.expr, nil.  The caller receives the
\* pointer; snap is what it points to at that moment.
ReturnExpr(p) ==
    /\ pc[p] = "return"
    /\ call[p].op = "ParseExpr"
    /\ Finish(p, [Args(p) EXCEPT !.expr = loc[p].expr, !.snap = heap[loc[p].expr]])
    /\ UNCHANGED <<exprCache, heap, lexerPool, parserPool, made, call, loc, trace,
                   lastOut, ncalls>>

\* ParseExpr line 105 inside CreateRetrievePlan, then lines 132-139.
ReturnRetrieve(p) ==
    /\ pc[p] = "return"
    /\ call[p].op = "CreateRetrievePlan"
    /\ Finish(p, [Args(p) EXCEPT !.expr = loc[p].expr, !.snap = heap[loc[p].expr],
                                 !.plan = QueryPlan(loc[p].expr)])
    /\ UNCHANGED <<exprCache, heap, lexerPool, parserPool, made, call, loc, trace,
                   lastOut, ncalls>>

\* ------------------------------------------------------- ParseIdentifier

\* IdentifierError without the GetColumnExpr check of lines 119-121.
IdentifierErrorAnyExpr(ret, hp) ==
    IF ret.tag = "err" THEN "cannot parse identifier"
    ELSE IF ret.tag # "expr" THEN "cannot parse identifier"
    ELSE ""

\* lines 111-121: the error ParseIdentifier returns before checkFunc, ""
\* when it goes on to call checkFunc.
IdentifierError(ret, hp) ==
    IF IsError(ret) THEN "cannot parse identifier"
    ELSE IF ~IsExpr(ret) THEN "cannot parse identifier"
    ELSE IF hp[ret.ref].kind # "ColumnExpr" THEN "cannot parse identifier"
    ELSE ""

\* What the caller's checkFunc may answer: nil or an error of its own.
CheckAnswers == {"", "check failed"}

\* ParseIdentifier lines 111-123.
PostIdentifier(p) ==
    /\ pc[p] = "post"
    /\ call[p].op = "ParseIdentifier"
    /\ LET err == IdentifierError(loc[p].ret, heap) IN
       IF err # ""
       THEN Finish(p, [Args(p) EXCEPT !.err = err, !.cause = loc[p].ret.msg])
       ELSE \E ans \in CheckAnswers :
               Finish(p, [Args(p) EXCEPT !.err = ans, !.expr = loc[p].ret.ref,
                                         !.snap = heap[loc[p].ret.ref], !.checked = 1,
                                         !.checkArg = loc[p].ret.ref, !.checkRet = ans])
    /\ UNCHANGED <<exprCache, heap, lexerPool, parserPool, made, call, loc, trace,
                   lastOut, ncalls>>

\* ------------------------------------------------------ CreateSearchPlan

\* ParseExpr line 105 inside the parse closure of CreateSearchPlan.
ReturnSearch(p) ==
    /\ pc[p] = "return"
    /\ call[p].op = "CreateSearchPlan"
    /\ pc' = [pc EXCEPT ![p] = "fields"]
    /\ UNCHANGED <<exprCache, heap, lexerPool, parserPool, made, call, loc, trace,
                   result, lastOut, ncalls>>

\* BeginSearchEmpty without the length test of lines 174-176: the empty
\* string goes through ParseExpr like any other.
BeginSearchEmptyParsed(p, sid, e) ==
    /\ pc[p] = "idle"
    /\ ncalls < MaxCalls
    /\ Len(e) <= 0
    /\ ncalls' = ncalls + 1
    /\ call' = [call EXCEPT ![p] = [op |-> "CreateSearchPlan", schema |-> sid, expr |-> e]]
    /\ loc' = [loc EXCEPT ![p] = NoLoc]
    /\ trace' = [trace EXCEPT ![p] = NoTrace]
    /\ result' = [result EXCEPT ![p] = NoResult]
    /\ pc' = [pc EXCEPT ![p] = "probe"]
    /\ UNCHANGED <<exprCache, heap, lexerPool, parserPool, made, lastOut>>

\* CreateSearchPlan with len(exprStr) <= 0 (lines 173-176): parse returns
\* nil, nil and the call goes on to the field checks.
BeginSearchEmpty(p, sid, e) ==
    /\ pc[p] = "idle"
    /\ ncalls < MaxCalls
    /\ Len(e) <= 0
    /\ ncalls' = ncalls + 1
    /\ call' = [call EXCEPT ![p] = [op |-> "CreateSearchPlan", schema |-> sid, expr |-> e]]
    /\ loc' = [loc EXCEPT ![p] = NoLoc]
    /\ trace' = [trace EXCEPT ![p] = NoTrace]
    /\ result' = [result EXCEPT ![p] = NoResult]
    /\ pc' = [pc EXCEPT ![p] = "fields"]
    /\ UNCHANGED <<exprCache, heap, lexerPool, parserPool, made, lastOut>>

\* VectorTypeOf with the tags of the two 16-bit float cases exchanged.
VectorTypeOfSwapped(dataType) ==
    CASE dataType = "BinaryVector" -> "VectorType_BinaryVector"
      [] dataType = "FloatVector" -> "VectorType_FloatVector"
      [] dataType = "Float16Vector" -> "VectorType_BFloat16Vector"
      [] dataType = "BFloat16Vector" -> "VectorType_Float16Vector"
      [] dataType = "SparseFloatVector" -> "VectorType_SparseFloatVector"
      [] OTHER -> ""

\* The switch of lines 201-215: the planpb.VectorType, "" in the default case.
VectorTypeOf(dataType) ==
    CASE dataType = "BinaryVector" -> "VectorType_BinaryVector"
      [] dataType = "FloatVector" -> "VectorType_FloatVector"
      [] dataType = "Float16Vector" -> "VectorType_Float16Vector"
      [] dataType = "BFloat16Vector" -> "VectorType_BFloat16Vector"
      [] dataType = "SparseFloatVector" -> "VectorType_SparseFloatVector"
      [] OTHER -> ""

\* FieldError with the vector type check ahead of the loaded check.
FieldErrorTypeFirst(sid, name) ==
    IF ~HasField(sid, name) THEN "field not found"
    ELSE IF ~IsVectorType(GetFieldFromName(sid, name).dataType)
         THEN "field to search is not of vector data type"
    ELSE IF ~IsFieldLoaded(sid, GetFieldFromName(sid, name).fieldID) THEN "ann field not loaded"
    ELSE ""

\* The error of lines 185-215, "" for nil: in the default case of the switch
\* the function returns err, which is the nil error of line 185.
FieldError(sid, name) ==
    IF ~HasField(sid, name) THEN "field not found"
    ELSE IF ~IsFieldLoaded(sid, GetFieldFromName(sid, name).fieldID) THEN "ann field not loaded"
    ELSE IF ~IsVectorType(GetFieldFromName(sid, name).dataType)
         THEN "field to search is not of vector data type"
    ELSE ""

\* Whether lines 185-215 return without reaching the plan node of line 216.
FieldStops(sid, name) ==
    \/ FieldError(sid, name) # ""
    \/ VectorTypeOf(GetFieldFromName(sid, name).dataType) = ""

\* lines 216-226
VectorAnnsPlan(sid, name, qi, expr) ==
    PlanNode("VectorAnns", expr, VectorTypeOf(GetFieldFromName(sid, name).dataType),
             qi, "$0", GetFieldFromName(sid, name).fieldID, FALSE, 0, NoTerm)

\* CreateSearchPlan lines 185-227.  vectorFieldName and queryInfo are read
\* here for the first time, so the model draws them here.
SearchFields(p) ==
    /\ pc[p] = "fields"
    /\ \E name \in FieldNames, qi \in QueryInfos :
          LET sid == call[p].schema
              args == [Args(p) EXCEPT !.field = name, !.queryInfo = qi]
              snap == IF loc[p].expr = 0 THEN NoObj ELSE heap[loc[p].expr] IN
          IF FieldStops(sid, name)
          THEN Finish(p, [args EXCEPT !.err = FieldError(sid, name)])
          ELSE Finish(p, [args EXCEPT !.expr = loc[p].expr, !.snap = snap,
                                      !.plan = VectorAnnsPlan(sid, name, qi, loc[p].expr)])
    /\ UNCHANGED <<exprCache, heap, lexerPool, parserPool, made, call, loc, trace,
                   lastOut, ncalls>>

\* ----------------------------------------------------- CreateRequeryPlan

GenericValue(kind, i, str) == [kind |-> kind, int |-> i, str |-> str]

\* lines 231-249: one GenericValue per id, nil when neither variant is set
RequeryValues(ids) ==
    CASE ids.kind = "IntId" ->
            [i \in 1..Len(ids.data) |-> GenericValue("Int64Val", ids.data[i], "")]
      [] ids.kind = "StrId" ->
            [i \in 1..Len(ids.data) |-> GenericValue("StringVal", 0, ids.data[i])]
      [] OTHER -> <<>>

\* RequeryPlan with Limit left unset.
RequeryPlanNoLimit(pk, ids) ==
    PlanNode("Query", 0, "", "", "", 0, FALSE, 0,
             [columnInfo |-> ColumnInfo(pk), values |-> RequeryValues(ids)])

\* lines 251-272
RequeryPlan(pk, ids) ==
    PlanNode("Query", 0, "", "", "", 0, FALSE, Len(RequeryValues(ids)),
             [columnInfo |-> ColumnInfo(pk), values |-> RequeryValues(ids)])

\* CreateRequeryPlan, the whole call.
Requery(p, pk, ids) ==
    /\ pc[p] = "idle"
    /\ ncalls < MaxCalls
    /\ ncalls' = ncalls + 1
    /\ call' = [call EXCEPT ![p] = [NoCall EXCEPT !.op = "CreateRequeryPlan"]]
    /\ loc' = [loc EXCEPT ![p] = NoLoc]
    /\ trace' = [trace EXCEPT ![p] = NoTrace]
    /\ Finish(p, [NoResult EXCEPT !.op = "CreateRequeryPlan", !.pk = pk, !.ids = ids,
                                  !.plan = RequeryPlan(pk, ids)])
    /\ UNCHANGED <<exprCache, heap, lexerPool, parserPool, made, lastOut>>

\* ----------------------------------------------------- convertHanToASCII

\* The runes of the strings handed to convertHanToASCII on its own: the
\* backslash, the escape character n, the letter x, a non-ASCII rune outside
\* the Han script (U+00E9), a Han rune (U+4E2D) and a Han rune of the
\* supplementary plane (U+2A700), which formatUnicode writes with five digits.
NormRunes == {92, 110, 120, 233, 20013, 173824}

NormStrings == UNION {[1..n -> NormRunes] : n \in 0..MaxLen}

\* convertHanToASCII(s), the whole call, as the first call of a behaviour.
Normalize(p, s) ==
    /\ pc[p] = "idle"
    /\ ncalls = 0
    /\ ncalls' = ncalls + 1
    /\ call' = [call EXCEPT ![p] = [NoCall EXCEPT !.op = "convertHanToASCII", !.expr = s]]
    /\ loc' = [loc EXCEPT ![p] = NoLoc]
    /\ trace' = [trace EXCEPT ![p] = NoTrace]
    /\ Finish(p, [NoResult EXCEPT !.op = "convertHanToASCII", !.exprStr = s,
                                  !.out = convertHanToASCII(s)])
    /\ UNCHANGED <<exprCache, heap, lexerPool, parserPool, made, lastOut>>

\* convertHanToASCII called on the string its last call returned.
NormalizeAgain(p) ==
    /\ pc[p] = "idle"
    /\ ncalls < MaxCalls
    /\ result[p].op = "convertHanToASCII"
    /\ ncalls' = ncalls + 1
    /\ call' = [call EXCEPT ![p] = [NoCall EXCEPT !.op = "convertHanToASCII",
                                                  !.expr = result[p].out]]
    /\ loc' = [loc EXCEPT ![p] = NoLoc]
    /\ trace' = [trace EXCEPT ![p] = NoTrace]
    /\ Finish(p, [NoResult EXCEPT !.op = "convertHanToASCII", !.exprStr = result[p].out,
                                  !.out = convertHanToASCII(result[p].out),
                                  !.again = TRUE])
    /\ UNCHANGED <<exprCache, heap, lexerPool, parserPool, made, lastOut>>

\* ------------------------------------------------------- specifications

Compiling == {"ParseExpr", "ParseIdentifier", "CreateRetrievePlan", "CreateSearchPlan"}

\* The steps of handleExpr and handleExprWithErrorListener.
Pipeline(p) ==
    \/ ProbeHit(p)
    \/ ProbeMiss(p)
    \/ EmptyFastPath(p)
    \/ Tokenize(p)
    \/ MakeParser(p)
    \/ ParseRule(p)
    \/ EofCheck(p)
    \/ ReleaseLexer(p)
    \/ ReleaseParser(p)
    \/ VisitAst(p)
    \/ Store(p)

\* One caller at a time: every operation and every input on one collection,
\* whose schema may differ from call to call.
Next ==
    \/ \E op \in Compiling, sid \in OneCollection, e \in AllExprs : Begin(1, op, sid, e)
    \/ \E sid \in OneCollection, e \in AllExprs : BeginSearchEmpty(1, sid, e)
    \/ \E pk \in PkFields, ids \in IdLists : Requery(1, pk, ids)
    \/ Pipeline(1)
    \/ \E t \in TmplMaps : PostParse(1, t)
    \/ ReturnExpr(1)
    \/ ReturnRetrieve(1)
    \/ PostIdentifier(1)
    \/ ReturnSearch(1)
    \/ SearchFields(1)
    \/ \E k \in Keys : Expire(k)

Spec == Init /\ [][Next]_vars

\* Two callers running ParseExpr at the same time on two collections, over
\* the empty string, a template expression and a syntax error, each with its
\* own template values.
ConcExprs == {E_empty, E_tmpl, E_syntax}

ConcOps == {"ParseExpr"}

ConcTmpls == {m \in TmplMaps : ~UnmarshalFails(m) /\ DOMAIN m = TmplNames}

NextConc ==
    \/ \E p \in Procs, op \in ConcOps, sid \in TwoCollections, e \in ConcExprs :
          Begin(p, op, sid, e)
    \/ \E p \in Procs : Pipeline(p)
    \/ \E p \in Procs, t \in ConcTmpls : PostParse(p, t)
    \/ \E p \in Procs : ReturnExpr(p)
    \/ \E k \in Keys : Expire(k)

SpecConc == Init /\ [][NextConc]_vars

\* One caller running ParseExpr and one running ParseIdentifier on the same
\* collection, over the empty string, a column of type Int64 and an
\* arithmetic expression, without template values.
SharedExprs == {E_empty, E_a, E_arith}

NextShared ==
    \/ \E e \in SharedExprs : Begin(1, "ParseExpr", "s1", e)
    \/ \E e \in SharedExprs : Begin(2, "ParseIdentifier", "s1", e)
    \/ \E p \in Procs : Pipeline(p)
    \/ PostParse(1, NoTemplates)
    \/ ReturnExpr(1)
    \/ PostIdentifier(2)
    \/ \E k \in Keys : Expire(k)

SpecShared == Init /\ [][NextShared]_vars

\* convertHanToASCII alone, on every string of NormStrings and on its own
\* results.
NextNorm ==
    \/ \E s \in NormStrings : Normalize(1, s)
    \/ NormalizeAgain(1)

SpecNorm == Init /\ [][NextNorm]_vars

\* ------------------------------------------------------------ properties

\* p's last call has returned and its result is there to see.
Done(p) == pc[p] = "idle" /\ result[p].op # "none"

\* p's current or last call did not touch the grammar collaborator.
NoGrammar(p) ==
    /\ trace[p].lexer = 0
    /\ trace[p].parser = 0
    /\ trace[p].rule = 0
    /\ trace[p].eof = 0
    /\ trace[p].visitor = 0

\* C1: when a call probes a key on which an earlier handleExpr has finished
\* and the entry neither expired nor was evicted since, the probe is a hit:
\* the call gets the very outcome value the earlier call got, and a call that
\* hit never invokes the tokenizer, the parser or the visitor, nor stores.
C1_SecondCallHits ==
    /\ [][\A p \in Procs :
            (pc[p] = "probe" /\ pc'[p] # "probe"
             /\ lastOut[<<GetCollectionName(call[p].schema), call[p].expr>>] # NoEntry)
            => /\ pc'[p] = "post"
               /\ trace'[p].hit
               /\ loc'[p].ret = lastOut[<<GetCollectionName(call[p].schema), call[p].expr>>]]_vars
    /\ [](\A p \in Procs : trace[p].hit => NoGrammar(p) /\ trace[p].stores = 0)

\* C1 witness: a second ParseExpr on a key got the cached outcome.
C1_Witness ==
    \E p \in Procs :
        /\ Done(p)
        /\ result[p].op = "ParseExpr"
        /\ ncalls = 2
        /\ trace[p].hit
        /\ NoGrammar(p)
        /\ loc[p].ret = exprCache[<<GetCollectionName(result[p].schema), result[p].exprStr>>]

\* C2: while an entry stays in the cache, the expression tree it holds does
\* not change (a compiled outcome is immutable once produced).
C2_CachedTreeImmutable ==
    [][\A k \in Keys :
          (exprCache[k].tag = "expr" /\ exprCache'[k] = exprCache[k])
          => heap'[exprCache[k].ref] = heap[exprCache[k].ref]]_vars

\* C3: the predicate a successful ParseExpr returns for a template expression
\* carries the value of the call's own template map.
C3_OwnTemplateValues ==
    \A p \in Procs :
        (Done(p) /\ result[p].op = "ParseExpr" /\ result[p].err = ""
         /\ result[p].snap.isTemplate)
        => /\ result[p].snap.tmplName \in DOMAIN result[p].tmpl
           /\ result[p].snap.value.val = result[p].tmpl[result[p].snap.tmplName].val

\* The states of a call after handleExpr has returned.
AfterHandleExpr(p) == trace[p].probes = 1 /\ pc[p] \in {"post", "return", "fields", "idle"}

\* C4: the store of a missed call writes the pipeline outcome, an expression
\* or an error, under (collection name, expression string as passed) and
\* nowhere else, and that value is what handleExpr returns; a call that
\* missed has stored exactly once when handleExpr returns, a call that hit
\* has not stored.
C4_MissStoresOnce ==
    /\ [][\A p \in Procs :
            (pc[p] = "store" /\ pc'[p] # "store")
            => /\ loc'[p].ret = loc[p].ret
               /\ loc[p].ret.tag \in {"expr", "err"}
               /\ exprCache' =
                     [exprCache EXCEPT ![<<GetCollectionName(call[p].schema), call[p].expr>>]
                                          = loc'[p].ret]
               /\ exprCache'[<<GetCollectionName(call[p].schema), call[p].expr>>] = loc'[p].ret]_vars
    /\ [](\A p \in Procs :
            AfterHandleExpr(p) => trace[p].stores = (IF trace[p].hit THEN 0 ELSE 1))
    /\ [](\A p \in Procs : pc[p] \in {"probe", "compile", "parser", "rule", "eof",
                                      "release", "putParser", "visit", "store"}
                           => trace[p].stores = 0)

\* C4 witness: a missed call on the expression with a Han rune has returned,
\* and its outcome lies under the raw string, which differs from the
\* normalized one.
C4_Witness ==
    \E p \in Procs :
        /\ AfterHandleExpr(p)
        /\ ~trace[p].hit
        /\ call[p].expr = E_han
        /\ convertHanToASCII(E_han) # E_han
        /\ exprCache[<<GetCollectionName(call[p].schema), E_han>>] = loc[p].ret
        /\ loc[p].ret.tag = "expr"

\* C5: ParseExpr of the empty string with an empty template map returns no
\* error and the always-true Bool expression, whatever the cache and the
\* schema, and never invokes the lexer, the parser or the visitor.
C5_EmptyAlwaysTrue ==
    \A p \in Procs :
        (Done(p) /\ result[p].op = "ParseExpr" /\ result[p].exprStr = <<>>
         /\ DOMAIN result[p].tmpl = {})
        => /\ result[p].err = ""
           /\ result[p].expr # 0
           /\ result[p].snap.kind = "AlwaysTrueExpr"
           /\ result[p].snap.dataType = "Bool"
           /\ NoGrammar(p)

\* C5 witness: such a call answered from the cache under the changed schema.
C5_Witness ==
    \E p \in Procs :
        /\ Done(p)
        /\ result[p].op = "ParseExpr"
        /\ result[p].exprStr = <<>>
        /\ DOMAIN result[p].tmpl = {}
        /\ result[p].schema = "s2"
        /\ trace[p].hit
        /\ result[p].snap.kind = "AlwaysTrueExpr"

\* C6: CreateRetrievePlan returns an error and no plan node when the compiled
\* expression is not of type Bool, fresh or cached; a plan it returns is a
\* Query node whose predicate is the compiled Bool expression.
C6_RetrieveNeedsBool ==
    \A p \in Procs :
        (Done(p) /\ result[p].op = "CreateRetrievePlan")
        => /\ (loc[p].ret.tag = "expr" /\ heap[loc[p].ret.ref].dataType # "Bool")
              => (result[p].err # "" /\ result[p].plan = NilPlan)
           /\ result[p].plan # NilPlan
              => /\ result[p].err = ""
                 /\ result[p].plan.node = "Query"
                 /\ loc[p].ret.tag = "expr"
                 /\ result[p].plan.predicates = loc[p].ret.ref
                 /\ heap[loc[p].ret.ref].dataType = "Bool"
           /\ result[p].err = "" => result[p].plan # NilPlan

\* C6 witness: a numeric expression answered from the cache is refused.
C6_Witness ==
    \E p \in Procs :
        /\ Done(p)
        /\ result[p].op = "CreateRetrievePlan"
        /\ result[p].exprStr = E_arith
        /\ trace[p].hit
        /\ result[p].err = "predicate is not a boolean expression"
        /\ result[p].plan = NilPlan

\* C7: CreateSearchPlan returns a plan node or an error, never neither.
C7_PlanOrError ==
    \A p \in Procs :
        (Done(p) /\ result[p].op = "CreateSearchPlan")
        => (result[p].plan # NilPlan \/ result[p].err # "")

\* The checks of CreateSearchPlan on the field in the order the claim gives.
FirstFailingCheck(sid, name) ==
    IF name \notin DOMAIN SchemaFields(sid) THEN "field not found"
    ELSE IF ~SchemaFields(sid)[name].loaded THEN "ann field not loaded"
    ELSE IF SchemaFields(sid)[name].dataType \notin VectorDataTypes
         THEN "field to search is not of vector data type"
    ELSE ""

CompileErrors ==
    {"cannot parse expression", "predicate is not a boolean expression",
     "invalid template value", "template value not found"}

\* C8: CreateSearchPlan reports the first failing check in the order compile
\* error, field not found, field not loaded, field not a vector type; not
\* found and not loaded are different errors; no plan comes with an error.
C8_SearchCheckOrder ==
    \A p \in Procs :
        (Done(p) /\ result[p].op = "CreateSearchPlan")
        => /\ result[p].err # "" => result[p].plan = NilPlan
           /\ IF result[p].field = ""
              THEN result[p].err \in CompileErrors
              ELSE /\ trace[p].probes = 1 => (loc[p].ret.tag = "expr" /\ loc[p].expr # 0)
                   /\ result[p].err = FirstFailingCheck(result[p].schema, result[p].field)

\* C8 witness: a field that is neither loaded nor a vector is reported as not
\* loaded, after the predicate compiled.
C8_Witness ==
    \E p \in Procs :
        /\ Done(p)
        /\ result[p].op = "CreateSearchPlan"
        /\ trace[p].probes = 1
        /\ result[p].field = "d"
        /\ result[p].err = "ann field not loaded"

\* The vector kind tag the claim expects for each recognised data type.
ExpectedTag ==
    [BinaryVector |-> "VectorType_BinaryVector",
     FloatVector |-> "VectorType_FloatVector",
     Float16Vector |-> "VectorType_Float16Vector",
     BFloat16Vector |-> "VectorType_BFloat16Vector",
     SparseFloatVector |-> "VectorType_SparseFloatVector"]

\* C9: on an existing loaded field, with a predicate that compiled,
\* CreateSearchPlan fails when the field is not of a vector type, and for
\* each of the five recognised vector types returns a VectorAnns node with
\* the tag of that type, the field's id, the caller's query parameters and
\* the placeholder tag "$0".
C9_SearchVectorKinds ==
    \A p \in Procs :
        (Done(p) /\ result[p].op = "CreateSearchPlan" /\ result[p].field # ""
         /\ result[p].field \in DOMAIN SchemaFields(result[p].schema)
         /\ SchemaFields(result[p].schema)[result[p].field].loaded)
        => LET f == SchemaFields(result[p].schema)[result[p].field] IN
           /\ f.dataType \notin VectorDataTypes
              => (result[p].err # "" /\ result[p].plan = NilPlan)
           /\ f.dataType \in DOMAIN ExpectedTag
              => /\ result[p].err = ""
                 /\ result[p].plan.node = "VectorAnns"
                 /\ result[p].plan.vectorType = ExpectedTag[f.dataType]
                 /\ result[p].plan.fieldId = f.fieldID
                 /\ result[p].plan.queryInfo = result[p].queryInfo
                 /\ result[p].plan.placeholderTag = "$0"
                 /\ result[p].plan.predicates = loc[p].expr

\* C9 witness: a search on the bfloat16 field with a compiled predicate.
C9_Witness ==
    \E p \in Procs :
        /\ Done(p)
        /\ result[p].op = "CreateSearchPlan"
        /\ result[p].field = "bf16"
        /\ result[p].queryInfo = "topk50"
        /\ result[p].plan.vectorType = "VectorType_BFloat16Vector"
        /\ result[p].plan.predicates # 0

\* C10: CreateRequeryPlan returns no error and a Query node with one term
\* value per id, in order and of the list's kind, Limit the number of ids
\* and IsCount false; without ids the value list is empty and Limit is 0; the
\* call leaves the cache, the heap and the pools alone and runs no pipeline.
C10_Requery ==
    /\ [](\A p \in Procs :
            (Done(p) /\ result[p].op = "CreateRequeryPlan")
            => LET ids == result[p].ids
                   plan == result[p].plan IN
               /\ result[p].err = ""
               /\ plan.node = "Query"
               /\ plan.isCount = FALSE
               /\ plan.limit = Len(ids.data)
               /\ Len(plan.term.values) = Len(ids.data)
               /\ plan.term.columnInfo.fieldId = result[p].pk.fieldID
               /\ plan.term.columnInfo.isPrimaryKey
               /\ \A i \in 1..Len(ids.data) :
                     IF ids.kind = "IntId"
                     THEN plan.term.values[i].kind = "Int64Val"
                          /\ plan.term.values[i].int = ids.data[i]
                     ELSE plan.term.values[i].kind = "StringVal"
                          /\ plan.term.values[i].str = ids.data[i]
               /\ ids.kind = "none" => (plan.term.values = <<>> /\ plan.limit = 0)
               /\ trace[p] = NoTrace)
    /\ [][\A p \in Procs :
            (pc[p] = "idle" /\ call'[p].op = "CreateRequeryPlan" /\ ncalls' # ncalls)
            => /\ pc'[p] = "idle"
               /\ UNCHANGED <<exprCache, heap, lexerPool, parserPool, made, lastOut>>]_vars

\* C10 witness: a requery of two integer ids after a compile filled the cache.
C10_Witness ==
    \E p \in Procs :
        /\ Done(p)
        /\ result[p].op = "CreateRequeryPlan"
        /\ result[p].ids = [kind |-> "IntId", data |-> <<2, 1>>]
        /\ result[p].plan.limit = 2
        /\ \E k \in Keys : exprCache[k] # NoEntry

\* C11: ParseIdentifier calls checkFunc exactly once, with the compiled
\* expression, when and only when handleExpr returned an expression that is a
\* bare column reference, and then returns what checkFunc answered; in every
\* other case (pipeline error, the empty string, a computed expression) it
\* returns "cannot parse identifier" and does not call checkFunc.
C11_IdentifierCheck ==
    \A p \in Procs :
        (Done(p) /\ result[p].op = "ParseIdentifier")
        => /\ IF loc[p].ret.tag = "expr" /\ heap[loc[p].ret.ref].kind = "ColumnExpr"
              THEN /\ result[p].checked = 1
                   /\ result[p].checkArg = loc[p].ret.ref
                   /\ result[p].snap.kind = "ColumnExpr"
                   /\ result[p].err = result[p].checkRet
              ELSE /\ result[p].checked = 0
                   /\ result[p].err = "cannot parse identifier"
           /\ result[p].exprStr \in {E_empty, E_arith, E_han, E_lexerr, E_prserr,
                                     E_syntax, E_trail, E_tmpl}
              => (result[p].checked = 0 /\ result[p].err = "cannot parse identifier")
           /\ result[p].exprStr = E_b
              => (result[p].checked = 1 /\ result[p].snap.column = "b")

\* C11 witness: the identifier b reached checkFunc, whose error came back.
C11_Witness ==
    \E p \in Procs :
        /\ Done(p)
        /\ result[p].op = "ParseIdentifier"
        /\ result[p].exprStr = E_b
        /\ result[p].checked = 1
        /\ heap[result[p].checkArg].column = "b"
        /\ result[p].err = "check failed"

\* Position i of s holds a backslash that some character immediately follows.
BackslashBefore(s, i) == i < Len(s) /\ s[i] = 92

\* The number of backslashes in a row that end right before position i.
RunBefore(s, i) == Cardinality({j \in 1..(i - 1) : \A m \in j..(i - 1) : s[m] = 92})

\* The character after position i is outside the escape set  \ n t r f " '
NoEscapeAfter(s, i) == s[i + 1] \notin {92, 110, 116, 114, 102, 34, 39}

HasHan(s) == \E i \in 1..Len(s) : IsHan(s[i])

\* C12 as stated: a string that holds, anywhere, a backslash immediately
\* followed by a character outside the escape set comes back unchanged, also
\* when an escaping backslash precedes that backslash and the string holds
\* Han runes.
C12_AnyBadBackslashUnchanged ==
    \A p \in Procs :
        (Done(p) /\ result[p].op = "convertHanToASCII"
         /\ \E i \in 1..Len(result[p].exprStr) :
               BackslashBefore(result[p].exprStr, i) /\ NoEscapeAfter(result[p].exprStr, i))
        => result[p].out = result[p].exprStr

\* C12 amended: a string that holds a backslash which is not itself escaped
\* (an even number of backslashes in a row precede it) immediately followed
\* by a character outside the escape set comes back unchanged, Han runes or
\* not.
C12_UnescapedBadBackslashUnchanged ==
    \A p \in Procs :
        (Done(p) /\ result[p].op = "convertHanToASCII"
         /\ \E i \in 1..Len(result[p].exprStr) :
               /\ BackslashBefore(result[p].exprStr, i)
               /\ RunBefore(result[p].exprStr, i) % 2 = 0
               /\ NoEscapeAfter(result[p].exprStr, i))
        => result[p].out = result[p].exprStr

\* C12 witness: a Han rune ahead of a backslash before x; the string came
\* back whole, Han rune included.
C12_Witness ==
    \E p \in Procs :
        /\ Done(p)
        /\ result[p].op = "convertHanToASCII"
        /\ result[p].exprStr = <<20013, 92, 120>>
        /\ result[p].out = <<20013, 92, 120>>

\* C13: an ASCII-only string, with or without backslashes, comes back
\* unchanged; and convertHanToASCII applied to its own result returns that
\* result again whenever the result holds no Han rune.
C13_AsciiFixedAndIdempotent ==
    \A p \in Procs :
        (Done(p) /\ result[p].op = "convertHanToASCII")
        => /\ (\A i \in 1..Len(result[p].exprStr) : result[p].exprStr[i] < 128)
              => result[p].out = result[p].exprStr
           /\ (result[p].again /\ ~HasHan(result[p].exprStr))
              => result[p].out = result[p].exprStr

\* C13 witness: the result of a first call, in which a Han rune was replaced
\* and which ends in a backslash, went through a second call unchanged.
C13_Witness ==
    \E p \in Procs :
        /\ Done(p)
        /\ result[p].op = "convertHanToASCII"
        /\ result[p].again
        /\ result[p].exprStr = <<92, 117, 52, 101, 50, 100, 92>>
        /\ result[p].out = result[p].exprStr

\* Whether the pipeline, run against schema sid, yields an expression or an
\* error for string e: a and a>{x} need field a, which s2 no longer has.
FreshOutcomeTag(sid, e) ==
    IF e \in {E_empty, E_b, E_arith, E_han} THEN "expr"
    ELSE IF e \in {E_a, E_tmpl} /\ "a" \in DOMAIN SchemaFields(sid) THEN "expr"
    ELSE "err"

\* C14: whatever schema a call brings for the collection name, the pipeline
\* runs only when the cache holds no entry for (collection name, string): an
\* entry made under the old schema keeps being returned, success or failure,
\* until it expires or is evicted; a call that finds no entry gets the
\* outcome of the pipeline against its own schema and stores it.
C14_StaleUntilGone ==
    \A p \in Procs :
        call[p].op \in Compiling
        => LET k == <<GetCollectionName(call[p].schema), call[p].expr>> IN
           /\ pc[p] \in {"compile", "parser", "rule", "eof", "release", "putParser",
                         "visit", "store"}
              => exprCache[k] = NoEntry
           /\ (AfterHandleExpr(p) /\ trace[p].hit)
              => /\ NoGrammar(p)
                 /\ trace[p].stores = 0
                 /\ lastOut[k] \in {NoEntry, loc[p].ret}
                 /\ exprCache[k] \in {NoEntry, loc[p].ret}
           /\ (AfterHandleExpr(p) /\ ~trace[p].hit)
              => /\ loc[p].ret.tag = FreshOutcomeTag(call[p].schema, call[p].expr)
                 /\ trace[p].stores = 1
                 /\ exprCache[k] \in {NoEntry, loc[p].ret}

\* C14 witness: after field a was dropped (schema s2) a call on "a" still
\* gets the column expression compiled while the field was there.
C14_Witness ==
    \E p \in Procs :
        /\ AfterHandleExpr(p)
        /\ trace[p].hit
        /\ call[p].schema = "s2"
        /\ call[p].expr = E_a
        /\ FreshOutcomeTag("s2", E_a) = "err"
        /\ loc[p].ret.tag = "expr"
        /\ heap[loc[p].ret.ref].column = "a"

\* The stage at which the pipeline fails on the normalized string n: the
\* first of tokenize, parser construction, expression rule and
\* full-consumption check that reports an error; "visit" when none does.
FailingStage(n) ==
    IF n = E_lexerr \/ (\E i \in 1..Len(n) : n[i] >= 128) THEN "tokenize"
    ELSE IF n = E_prserr THEN "parser"
    ELSE IF n = E_syntax THEN "rule"
    ELSE IF n = E_trail THEN "eof"
    ELSE "visit"

\* How often each stage has run when the pipeline stopped at a given stage:
\* tokenize, parser construction, expression rule, end-of-input check, visit.
StagesRun ==
    [tokenize |-> <<1, 0, 0, 0, 0>>,
     parser   |-> <<1, 1, 0, 0, 0>>,
     rule     |-> <<1, 1, 1, 0, 0>>,
     eof      |-> <<1, 1, 1, 1, 0>>,
     visit    |-> <<1, 1, 1, 1, 1>>]

\* C15: a pipeline run on a non-empty string runs its stages in the order
\* tokenize, parser construction, expression rule, end-of-input check, visit
\* and stops at the first that fails: no later stage runs, the visitor never
\* sees a string with a lexer or parser error or with input left over, and
\* the outcome is that stage's error and not an expression.
C15_ShortCircuit ==
    \A p \in Procs :
        /\ trace[p].parser <= trace[p].lexer
        /\ trace[p].rule <= trace[p].parser
        /\ trace[p].eof <= trace[p].rule
        /\ trace[p].visitor <= trace[p].eof
        /\ trace[p].lexer <= 1
        /\ (AfterHandleExpr(p) /\ ~trace[p].hit /\ call[p].expr # E_empty)
           => LET stage == FailingStage(convertHanToASCII(call[p].expr)) IN
              /\ <<trace[p].lexer, trace[p].parser, trace[p].rule, trace[p].eof,
                    trace[p].visitor>> = StagesRun[stage]
              /\ stage # "visit" => (loc[p].ret.tag = "err" /\ loc[p].ret.ref = 0)
              /\ stage = "eof" => loc[p].ret.msg = "invalid expression"
              /\ loc[p].ret.tag = "expr" => stage = "visit"

\* C15 witness: a run on "a)" stopped at the end-of-input check with the
\* syntax error as its outcome, the visitor never invoked.
C15_Witness ==
    \E p \in Procs :
        /\ AfterHandleExpr(p)
        /\ ~trace[p].hit
        /\ call[p].expr = E_trail
        /\ trace[p].eof = 1
        /\ trace[p].visitor = 0
        /\ loc[p].ret = ErrVal("invalid expression")
        /\ exprCache[<<GetCollectionName(call[p].schema), E_trail>>] = loc[p].ret

\* p's call has run the pipeline to its end and the outcome is an error.
RunFailed(p) == AfterHandleExpr(p) /\ ~trace[p].hit /\ loc[p].ret.tag = "err"

\* C16 as stated: after a pipeline run whose outcome is an error, a visitor
\* error included, the lexer and the parser the run acquired have not been
\* returned to the pool.
C16_NoReturnOnAnyError ==
    \A p \in Procs :
        RunFailed(p)
        => /\ trace[p].putLexer = 0
           /\ trace[p].putParser = 0
           /\ loc[p].lexer \notin lexerPool
           /\ loc[p].parser \notin parserPool

\* C16 amended: after a run whose outcome is an error of the tokenizer, of
\* the parser construction, of the expression rule or of the end-of-input
\* check, the lexer and the parser the run acquired have not been returned to
\* the pool; a run that fails in the visitor returned both before the
\* visitor ran.
C16_NoReturnOnGrammarError ==
    \A p \in Procs :
        RunFailed(p)
        => IF trace[p].visitor = 0
           THEN /\ trace[p].lexer = 1
                /\ trace[p].putLexer = 0
                /\ trace[p].putParser = 0
                /\ loc[p].lexer \notin lexerPool
                /\ loc[p].parser \notin parserPool
           ELSE /\ trace[p].putLexer = 1
                /\ trace[p].putParser = 1
                /\ loc[p].lexer \in lexerPool
                /\ loc[p].parser \in parserPool

\* C16 witness: a run on "a>" took the lexer and the parser an earlier run
\* had returned to the pool and failed in the expression rule; the two
\* instances are gone from the pool.
C16_Witness ==
    \E p \in Procs :
        /\ RunFailed(p)
        /\ call[p].expr = E_syntax
        /\ ncalls = 2
        /\ made = [lexers |-> 1, parsers |-> 1]
        /\ loc[p].lexer = 1
        /\ loc[p].parser = 1
        /\ lexerPool = {}
        /\ parserPool = {}

\* p holds a lexer: between getLexer and putLexer.
HoldsLexer(p) == pc[p] \in {"parser", "rule", "eof", "release"}

\* p holds a parser: between getParser and putParser.
HoldsParser(p) == pc[p] \in {"rule", "eof", "release", "putParser"}

\* C17: a run that passed the end-of-input check returns its lexer and its
\* parser exactly once, after that check and before the visitor; a run never
\* touches an instance it has returned; an instance a run holds is not in the
\* pool and no other run holds it.
C17_ReturnOnceBeforeVisit ==
    \A p \in Procs :
        /\ trace[p].putLexer <= 1
        /\ trace[p].putParser <= trace[p].putLexer
        /\ trace[p].putLexer = 1 => (trace[p].eof = 1 /\ ~HoldsLexer(p))
        /\ trace[p].putParser = 1 => ~HoldsParser(p)
        /\ trace[p].putParser < trace[p].putLexer => pc[p] = "putParser"
        /\ pc[p] = "visit"
           => (trace[p].putLexer = 1 /\ trace[p].putParser = 1 /\ trace[p].visitor = 0)
        /\ trace[p].visitor = 1 => (trace[p].putLexer = 1 /\ trace[p].putParser = 1)
        /\ (AfterHandleExpr(p) /\ trace[p].eof = 1
            /\ loc[p].ret # ErrVal("invalid expression"))
           => (trace[p].putLexer = 1 /\ trace[p].putParser = 1)
        /\ HoldsLexer(p)
           => /\ loc[p].lexer # 0
              /\ loc[p].lexer \notin lexerPool
              /\ \A q \in Procs \ {p} : HoldsLexer(q) => loc[q].lexer # loc[p].lexer
        /\ HoldsParser(p)
           => /\ loc[p].parser # 0
              /\ loc[p].parser \notin parserPool
              /\ \A q \in Procs \ {p} : HoldsParser(q) => loc[q].parser # loc[p].parser

\* C17 witness: one caller has returned its lexer and not yet its parser;
\* the other caller's run holds that lexer together with a parser of its own.
C17_Witness ==
    \E p \in Procs, q \in Procs :
        /\ p # q
        /\ pc[p] = "putParser"
        /\ trace[p].putLexer = 1
        /\ trace[p].putParser = 0
        /\ HoldsParser(q)
        /\ loc[q].lexer = loc[p].lexer
        /\ loc[q].parser # loc[p].parser
        /\ made = [lexers |-> 1, parsers |-> 2]

\* p's call missed and has run handleExpr to its end.
RanPipeline(p) == AfterHandleExpr(p) /\ ~trace[p].hit

\* C18: a call probes once, runs each pipeline stage at most once and stores
\* at most once; two calls on one key may both miss, both run the pipeline
\* and both store, and then the key has one entry, which is the outcome of
\* the later store (lastOut is written by every store), unless the entry
\* expired or was evicted.
C18_NoDeduplication ==
    \A p \in Procs :
        /\ trace[p].probes <= 1
        /\ trace[p].lexer <= 1
        /\ trace[p].parser <= 1
        /\ trace[p].rule <= 1
        /\ trace[p].eof <= 1
        /\ trace[p].visitor <= 1
        /\ trace[p].stores <= 1
        /\ \A q \in Procs \ {p} :
              (RanPipeline(p) /\ RanPipeline(q)
               /\ call[p].expr = call[q].expr
               /\ GetCollectionName(call[p].schema) = GetCollectionName(call[q].schema))
              => LET k == <<GetCollectionName(call[p].schema), call[p].expr>> IN
                 /\ trace[p].stores = 1
                 /\ trace[q].stores = 1
                 /\ exprCache[k] \in {NoEntry, loc[p].ret, loc[q].ret}
                 /\ exprCache[k] # NoEntry => exprCache[k] = lastOut[k]

\* C18 witness: both callers missed on the same key, both ran the visitor
\* and stored; the two outcomes are different objects and the cache holds
\* the second caller's.
C18_Witness ==
    /\ RanPipeline(1)
    /\ RanPipeline(2)
    /\ call[1].expr = E_tmpl
    /\ call[2].expr = E_tmpl
    /\ call[1].schema = call[2].schema
    /\ trace[1].visitor = 1
    /\ trace[2].visitor = 1
    /\ trace[1].stores = 1
    /\ trace[2].stores = 1
    /\ loc[1].ret # loc[2].ret
    /\ exprCache[<<GetCollectionName(call[2].schema), E_tmpl>>] = loc[2].ret
    /\ lastOut[<<GetCollectionName(call[2].schema), E_tmpl>>] = loc[2].ret

\* C19: CreateSearchPlan with the empty string neither probes nor stores
\* into the cache and acquires no lexer or parser; its error is the one of
\* the field checks alone, and a plan it returns is a VectorAnns node on the
\* field with a nil predicate, not the always-true expression ParseExpr
\* yields for the same string.
C19_SearchEmptySkipsCompile ==
    \A p \in Procs :
        (call[p].op = "CreateSearchPlan" /\ call[p].expr = <<>>)
        => /\ trace[p] = NoTrace
           /\ loc[p] = NoLoc
           /\ pc[p] \in {"fields", "idle"}
           /\ Done(p)
              => LET f == result[p].field IN
                 /\ result[p].err = FirstFailingCheck(result[p].schema, f)
                 /\ result[p].expr = 0
                 /\ result[p].plan # NilPlan
                    => /\ result[p].err = ""
                       /\ result[p].plan.node = "VectorAnns"
                       /\ result[p].plan.predicates = 0
                       /\ result[p].plan.fieldId = SchemaFields(result[p].schema)[f].fieldID
                       /\ result[p].plan.queryInfo = result[p].queryInfo
                 /\ (result[p].err = ""
                     /\ SchemaFields(result[p].schema)[f].dataType \in DOMAIN ExpectedTag)
                    => result[p].plan # NilPlan

\* C19 witness: the cache holds the always-true expression for the empty
\* string, and a search with the empty string returned a plan with a nil
\* predicate.
C19_Witness ==
    \E p \in Procs :
        /\ Done(p)
        /\ result[p].op = "CreateSearchPlan"
        /\ result[p].exprStr = <<>>
        /\ result[p].plan.node = "VectorAnns"
        /\ result[p].plan.predicates = 0
        /\ exprCache[<<GetCollectionName(result[p].schema), <<>>>>].tag = "expr"
        /\ heap[exprCache[<<GetCollectionName(result[p].schema), <<>>>>].ref].kind
              = "AlwaysTrueExpr"

\* The errors the public operations make of an outcome.
Verdicts ==
    {"cannot parse expression", "predicate is not a boolean expression",
     "invalid template value", "template value not found",
     "cannot parse identifier", "check failed"}

\* C20: ParseExpr and ParseIdentifier use the same keys, and the cache holds
\* pipeline outcomes only, never what an operation made of them: when
\* ParseExpr refuses a string because it compiles to an expression that is
\* not of type Bool, the entry is that expression; a ParseIdentifier that
\* hits runs no grammar and reaches checkFunc when the entry is a column
\* reference; a ParseExpr that hits judges the entry, whoever stored it; of
\* two calls on one key, one of each operation, the one that hit got the
\* outcome the other stored.
C20_SharedRawOutcomes ==
    /\ \A k \in Keys :
          /\ exprCache[k].tag = "err" => exprCache[k].msg \notin Verdicts
          /\ exprCache[k].tag = "expr" => exprCache[k].ref \in 1..Len(heap)
    /\ \A p \in Procs :
          LET k == <<GetCollectionName(result[p].schema), result[p].exprStr>>
              ret == loc[p].ret IN
          /\ (Done(p) /\ result[p].op = "ParseExpr"
              /\ result[p].err = "predicate is not a boolean expression")
             => /\ ret.tag = "expr"
                /\ exprCache[k] # NoEntry => exprCache[k].tag = "expr"
          /\ (Done(p) /\ result[p].op = "ParseIdentifier" /\ trace[p].hit)
             => /\ NoGrammar(p)
                /\ (ret.tag = "expr" /\ heap[ret.ref].kind = "ColumnExpr")
                   => (result[p].checked = 1 /\ result[p].err = result[p].checkRet)
          /\ (Done(p) /\ result[p].op = "ParseExpr" /\ trace[p].hit)
             => /\ NoGrammar(p)
                /\ (ret.tag = "expr" /\ heap[ret.ref].dataType = "Bool")
                   => (result[p].err = "" /\ result[p].expr = ret.ref)
                /\ (ret.tag = "expr" /\ heap[ret.ref].dataType # "Bool")
                   => result[p].err = "predicate is not a boolean expression"
    /\ \A p \in Procs, q \in Procs :
          (/\ ncalls = 2
           /\ AfterHandleExpr(p) /\ AfterHandleExpr(q)
           /\ call[p].op # call[q].op
           /\ call[p].expr = call[q].expr
           /\ GetCollectionName(call[p].schema) = GetCollectionName(call[q].schema)
           /\ trace[p].hit /\ ~trace[q].hit)
          => loc[p].ret = loc[q].ret

\* C20 witness: ParseExpr refused the Int64 column a, and ParseIdentifier on
\* the same string then hit the cache, got the very object ParseExpr had
\* compiled and passed checkFunc.
C20_Witness ==
    /\ Done(1)
    /\ result[1].op = "ParseExpr"
    /\ result[1].exprStr = E_a
    /\ ~trace[1].hit
    /\ result[1].err = "predicate is not a boolean expression"
    /\ Done(2)
    /\ result[2].op = "ParseIdentifier"
    /\ result[2].exprStr = E_a
    /\ trace[2].hit
    /\ NoGrammar(2)
    /\ loc[2].ret = loc[1].ret
    /\ result[2].checked = 1
    /\ result[2].err = ""

====
